---- MODULE Spec2Model ----
(***************************************************************************)
(* Session/Log Manager of the robot dashboard: the browser-resident        *)
(* experiment logger (hooks/useExperimentLogger), the session control      *)
(* (components/ExperimentControl), the panel that wires them together      *)
(* (components/ActionsPanel) and the Log Store endpoints of the ROS server *)
(* (ros-server/index.js).                                                  *)
(*                                                                         *)
(* An event is a pair <<s, k>>: the k-th event logged while the hook's     *)
(* sessionId was s (s = 0 when no session was set).  A request body is the *)
(* sequence of events whose JSON lines it carries.                         *)
(*                                                                         *)
(* Recording Controller: the /bag/start, /bag/stop and /bag/status         *)
(* endpoints of ros-server/index.js with the recorder processes they       *)
(* spawn.  Action Gateway: the /generic-action endpoint with the remote    *)
(* action server behind it, and callGenericAction of ActionsPanel, which   *)
(* derives the success of a call from the reply.  Each of the three parts  *)
(* has its own next-state relation; the variables of the other parts stay  *)
(* as Init left them.                                                      *)
(***************************************************************************)
EXTENDS Integers, Sequences, FiniteSets, Bags, TLC

\* ------------------------------------------------------------------ bounds
MaxSessions == 2
MaxEvents == 2
MaxInFlight == 2
MaxRecorders == 3
MaxStops == 2
MaxCalls == 2

NoSession == 0
Sessions == 1..MaxSessions
\* a localStorage key or a file that does not exist
Absent == << <<NoSession, 0>> >>
NoCount == -1

VARIABLES
  sessionId,            \* the session id held by the page and passed to the hook (0 = null)
  manualIp,             \* the server address typed by the operator ("" or "host")
  logsRef,              \* useExperimentLogger: logsRef.current
  lastAutoSaveRef,      \* useExperimentLogger: lastAutoSaveRef.current (the watermark)
  autoSaveIntervalRef,  \* session captured by the live auto-save interval (0 = no interval)
  restoreTimeout,       \* session captured by the pending 2 s restored-logs timeout (0 = none)
  lsSession,            \* localStorage 'experiment-control-session' (0 = no key)
  lsLogs,               \* localStorage 'experiment-logs-<s>'
  lsCount,              \* localStorage 'experiment-logs-saved-count-<s>'
  inflight,             \* bag of fetch requests sent to the Log Store and not yet settled
  stopPc,               \* position of a running ExperimentControl.stopSession
  store,                \* the server's experiment_logs/<s>.jsonl files
  nextSession,          \* next fresh session id
  nLogged,              \* per session: number of events logged under it
  lastReturn,           \* what the saveLogsToServer call of the last step returned at once
  lsStartTime,          \* localStorage 'experiment-control-start-time' ("none" = no key)
  page                  \* the page: "loading" before its first effects, "running", "failed"

VARIABLES
  bagProcess,           \* ros-server: let bagProcess (0 = null, else the recorder's number)
  currentBagPath,       \* ros-server: let currentBagPath (0 = null)
  recorders,            \* per recorder process: where it is in its life
  stopTimers,           \* bag of pending 2 s timers of POST /bag/stop
  nextPid,              \* number of the next recorder process to spawn
  bagReply,             \* the last reply sent by /bag/start or /bag/stop
  stopReturned          \* a stop has answered success and no start has succeeded since

recorderVars == <<bagProcess, currentBagPath, recorders, stopTimers, nextPid,
                  bagReply, stopReturned>>

VARIABLES
  node,                 \* ros-server: let node (FALSE = undefined, rclnodejs not yet initialised)
  serverUp,             \* the remote action server is reachable
  calls                 \* per /generic-action call: request, position, reply, derived success

gatewayVars == <<node, serverUp, calls>>

serverVars == <<recorderVars, gatewayVars>>

startupVars == <<lsStartTime, page>>

loggerVars == <<sessionId, manualIp, logsRef, lastAutoSaveRef, autoSaveIntervalRef,
                restoreTimeout, lsSession, lsLogs, lsCount, inflight, stopPc, store,
                nextSession, nLogged, lastReturn, startupVars>>

vars == <<loggerVars, serverVars>>

\* ------------------------------------------------------------- helpers
Range(q) == {q[i] : i \in 1..Len(q)}

\* A request: kind "append" or "save"; sid and body as posted; origin is the
\* caller awaiting it ("auto": saveLogsToServer from a timer, "stopAll":
\* saveAllLogsToServer from stopSession, "stopFallback": fallbackSaveLogs);
\* fb marks the save that saveLogsToServer posts after a 404.
Req(kind, sid, body, origin, fb) ==
  [kind |-> kind, sid |-> sid, body |-> body, origin |-> origin, fb |-> fb]

One(r) == SetToBag({r})
CanSend == BagCardinality(inflight) < MaxInFlight

RECURSIVE SumUpTo(_, _)
SumUpTo(f, n) == IF n < 0 THEN 0 ELSE f[n] + SumUpTo(f, n - 1)

TotalLogged == SumUpTo(nLogged, MaxSessions)

\* The events logged under session s, in the order of their logEvent calls.
Logged(s) == [k \in 1..nLogged[s] |-> <<s, k>>]

\* ------------------------------------------------ useExperimentLogger (hook)
\* mutant of NewLogs: the slice is forgotten and everything is sent again
NewLogs_Unsliced(logs, saved) == logs

\* const newLogs = logsRef.current.slice(lastAutoSaveRef.current)
NewLogs(logs, saved) == SubSeq(logs, saved + 1, Len(logs))

\* response.ok: lastAutoSaveRef.current = logsRef.current.length
AckedCount(logs, saved) == Len(logs)

\* mutant of FailedCount: the watermark is advanced before response.ok is tested
FailedCount_Advanced(logs, saved) == Len(logs)

\* response not ok, or fetch rejected: lastAutoSaveRef is not assigned
FailedCount(logs, saved) == saved

\* saveLogsToServer with nothing new: return true, no request
NothingNew == "true"

\* saveLogsToServer on an empty buffer: return false, no request
NothingLogged == "false"

\* clearLogs: logsRef.current = []; lastAutoSaveRef.current = 0; every
\* localStorage key starting with 'experiment-logs-' is removed, which
\* covers the 'experiment-logs-saved-count-' keys as well.
ClearedLogs(logs) == <<>>

\* mutant of ClearedCount: clearLogs forgets to reset lastAutoSaveRef
ClearedCount_Kept(saved) == saved

ClearedCount(saved) == 0
ClearedKeys(ls, none) == [s \in DOMAIN ls |-> none]

\* restore effect: the buffer and the watermark after the effect ran for a
\* sessionId whose keys hold savedLogs / savedCount
RestoredLogs(savedLogs, cur) == IF savedLogs # Absent THEN savedLogs ELSE cur

RestoredCount(savedLogs, savedCount, cur) ==
  IF savedLogs = Absent THEN cur
  ELSE IF savedCount # NoCount THEN savedCount ELSE 0

\* mutant of IntervalFor: the effect never clears the first session's interval
IntervalFor_Uncleared(sid, ip) == IF sid # NoSession /\ ip # "" THEN sid ELSE 1

\* auto-save effect: an interval exists exactly when sessionId and manualIp are set
IntervalFor(sid, ip) == IF sid # NoSession /\ ip # "" THEN sid ELSE NoSession

\* restored-logs effect: a 2 s timeout is pending when there are unsaved logs
TimeoutFor(sid, ip, logs, saved) ==
  IF sid # NoSession /\ ip # "" /\ Len(logs) > saved THEN sid ELSE NoSession

\* ------------------------------------------------------ Log Store (server)
\* POST /experiment/logs/save: fs.writeFileSync(filePath, logs)
WrittenFile(old, body) == body

\* What the server does to the files when request r reaches it.  A save
\* with an empty logs string is refused (400); the server defines no
\* /experiment/logs/append route, so an append changes nothing (404).
Served(r) ==
  IF r.kind = "save" /\ r.body # <<>>
    THEN [store EXCEPT ![r.sid] = WrittenFile(store[r.sid], r.body)]
    ELSE store

\* ---------------------------------------- Recording Controller (server)
NoProcess == 0
NoPath == 0
Recorders == 1..MaxRecorders

\* bagPath = `./experiment_bags/${sessionName}_${timestamp}`: a path of its
\* own for every start
BagPath(p) == p

\* a reply of /bag/start or /bag/stop; stopped is the recorder that the
\* answering stop had signalled
BagReply(op, code, path, stopped) ==
  [op |-> op, code |-> code, path |-> path, stopped |-> stopped]

NoReply == BagReply("none", 0, NoPath, NoProcess)

\* GET /bag/status
BagStatus ==
  [recording |-> bagProcess # NoProcess, path |-> currentBagPath, pid |-> bagProcess]

\* mutant of RecordingActive: /bag/start does not test bagProcess
RecordingActive_Untested(p) == FALSE

\* if (bagProcess) of /bag/start, if (!bagProcess) of /bag/stop
RecordingActive(p) == p # NoProcess

\* mutant of StoppedProcess: the stop timer leaves bagProcess set
StoppedProcess_Kept(p) == p

\* the stop timer: bagProcess = null
StoppedProcess(p) == NoProcess

\* mutant of ClosedProcess: the exit handlers leave bagProcess set
ClosedProcess_Stale(p) == p

\* the 'error' and 'close' handlers: bagProcess = null
ClosedProcess(p) == NoProcess

RecorderInit ==
  /\ bagProcess = NoProcess
  /\ currentBagPath = NoPath
  /\ recorders = [p \in Recorders |-> "unborn"]
  /\ stopTimers = EmptyBag
  /\ nextPid = 1
  /\ bagReply = NoReply
  /\ stopReturned = FALSE

\* ------------------------------------------------- Action Gateway (server)
Calls == 1..MaxCalls

\* GoalStatus codes: 0 UNKNOWN .. 4 SUCCEEDED, 5 CANCELED, 6 ABORTED
Succeeded == 4
GoalStatuses == 0..6

\* the success field of a result message as it arrives in the JSON reply:
\* absent, true, false, or a value that is truthy without being the
\* boolean true (1, "ok": the result type is whatever the action defines)
Payloads == {"none", "true", "false", "truthy"}

\* request bodies: "" is a missing actionName or actionType, "none" a
\* missing goal; "Bogus" is a type no installed package defines
ActionRequest(name, type, goal) == [actionName |-> name, actionType |-> type, goal |-> goal]

Requests ==
  { ActionRequest("/arm/move", "ArmMove", "goal"),
    ActionRequest("/arm/move", "Bogus", "goal"),
    ActionRequest("", "ArmMove", "goal"),
    ActionRequest("/arm/move", "", "goal"),
    ActionRequest("/arm/move", "ArmMove", "none") }

NoRequest == ActionRequest("", "", "none")

\* rclnodejs.require(actionType) returns the interface, or throws
Resolves(type) == type = "ArmMove"

\* if (!actionName || !actionType || !goalData)
MissingField(req) == req.actionName = "" \/ req.actionType = "" \/ req.goal = "none"

\* mutant of AfterDiscovery: the result of waitForServer is not tested
AfterDiscovery_Untested(available) == "sendGoal"

\* if (!available) return 503; else the goal is sent
AfterDiscovery(available) == IF available THEN "sendGoal" ELSE "replied"

\* mutant of DerivedSuccess: only the status code counts
DerivedSuccess_StatusOnly(status, payload) == status = Succeeded

\* callGenericAction: result.result.success === true || result.status == 4
DerivedSuccess(status, payload) == payload = "true" \/ status = Succeeded

\* callGenericAction: the message handed to onActionResult, chosen by
\* result.result.success || result.status == 4 after a 200
ShownMessage(code, status, payload) ==
  IF code = 200 /\ (payload \in {"true", "truthy"} \/ status = Succeeded)
    THEN "executed successfully"
    ELSE "Failed to execute"

\* A call: where its handler stands (pc), its request, whether a remote
\* server was found and a goal sent, the HTTP reply (code, error text as
\* the handler builds it, status and payload of a 200), what made it fail
\* (cause), and the success and the message the client derived.
Call(pc, req, discovered, submitted, code, error, status, payload, cause, success) ==
  [pc |-> pc, req |-> req, discovered |-> discovered, submitted |-> submitted,
   code |-> code, error |-> error, status |-> status, payload |-> payload,
   cause |-> cause, success |-> success, message |-> "none"]

NoCall == Call("idle", NoRequest, FALSE, FALSE, 0, "", 0, "none", "", FALSE)

GatewayInit ==
  /\ node = FALSE
  /\ serverUp = FALSE
  /\ calls = [c \in Calls |-> NoCall]

\* ------------------------------------------------------------------ Init
Init ==
  /\ sessionId = NoSession
  /\ manualIp = "host"
  /\ logsRef = <<>>
  /\ lastAutoSaveRef = 0
  /\ autoSaveIntervalRef = NoSession
  /\ restoreTimeout = NoSession
  /\ lsSession = NoSession
  /\ lsLogs = [s \in Sessions |-> Absent]
  /\ lsCount = [s \in Sessions |-> NoCount]
  /\ inflight = EmptyBag
  /\ stopPc = "idle"
  /\ store = [s \in Sessions |-> Absent]
  /\ nextSession = 1
  /\ nLogged = [s \in 0..MaxSessions |-> 0]
  /\ lastReturn = "none"
  /\ lsStartTime = "none"
  /\ page = "running"
  /\ RecorderInit
  /\ GatewayInit

\* --------------------------------------------------------------- actions
\* ActionsPanel.handleSessionChange(s) with s set (clearLogs), the page's
\* setCurrentSessionId(s), and the hook's effects of the render that follows.
EnterSession(s, ip) ==
  LET keysL == ClearedKeys(lsLogs, Absent)
      keysC == ClearedKeys(lsCount, NoCount)
      logs1 == RestoredLogs(keysL[s], ClearedLogs(logsRef))
      cnt1  == RestoredCount(keysL[s], keysC[s], ClearedCount(lastAutoSaveRef))
  IN /\ sessionId' = s
     /\ lsLogs' = keysL
     /\ lsCount' = keysC
     /\ logsRef' = logs1
     /\ lastAutoSaveRef' = cnt1
     /\ autoSaveIntervalRef' = IntervalFor(s, ip)
     /\ restoreTimeout' = TimeoutFor(s, ip, logs1, cnt1)

\* ExperimentControl.startSession, POST /bag/start answered ok
StartSession ==
  /\ sessionId = NoSession
  /\ stopPc = "idle"
  /\ manualIp = "host"
  /\ nextSession <= MaxSessions
  /\ EnterSession(nextSession, manualIp)
  /\ lsSession' = nextSession
  /\ lsStartTime' = "iso"
  /\ nextSession' = nextSession + 1
  /\ lastReturn' = "none"
  /\ UNCHANGED <<serverVars, page, manualIp, inflight, stopPc, store, nLogged>>

\* logEvent: push, then localStorage.setItem of the whole buffer when a
\* session is set; full = the setItem throws (quota) and is caught.
LogEventTo(full) ==
  LET s == sessionId
      e == <<s, nLogged[s] + 1>>
  IN /\ TotalLogged < MaxEvents
     /\ logsRef' = Append(logsRef, e)
     /\ nLogged' = [nLogged EXCEPT ![s] = @ + 1]
     /\ lsLogs' = IF s # NoSession /\ ~full
                    THEN [lsLogs EXCEPT ![s] = logsRef']
                    ELSE lsLogs
     /\ lastReturn' = "none"
     /\ UNCHANGED <<serverVars, startupVars, sessionId, manualIp, lastAutoSaveRef, autoSaveIntervalRef,
                    restoreTimeout, lsSession, lsCount, inflight, stopPc, store,
                    nextSession>>

LogEvent == LogEventTo(FALSE)

LogEventStorageFull == sessionId # NoSession /\ LogEventTo(TRUE)

\* saveLogsToServer as called by a closure that captured session sid
SaveLogsToServer(sid) ==
  IF Len(logsRef) = 0
    THEN /\ lastReturn' = NothingLogged
         /\ UNCHANGED inflight
  ELSE IF NewLogs(logsRef, lastAutoSaveRef) = <<>>
    THEN /\ lastReturn' = NothingNew
         /\ UNCHANGED inflight
  ELSE /\ CanSend
       /\ inflight' = inflight (+)
            One(Req("append", sid, NewLogs(logsRef, lastAutoSaveRef), "auto", FALSE))
       /\ lastReturn' = "none"

\* the setInterval callback of the auto-save effect
Tick ==
  /\ autoSaveIntervalRef # NoSession
  /\ Len(logsRef) > lastAutoSaveRef
  /\ SaveLogsToServer(autoSaveIntervalRef)
  /\ UNCHANGED <<serverVars, startupVars, sessionId, manualIp, logsRef, lastAutoSaveRef, autoSaveIntervalRef,
                 restoreTimeout, lsSession, lsLogs, lsCount, stopPc, store,
                 nextSession, nLogged>>

\* the setTimeout callback of the restored-logs effect
RestoreTimeoutFire ==
  /\ restoreTimeout # NoSession
  /\ restoreTimeout' = NoSession
  /\ SaveLogsToServer(restoreTimeout)
  /\ UNCHANGED <<serverVars, startupVars, sessionId, manualIp, logsRef, lastAutoSaveRef, autoSaveIntervalRef,
                 lsSession, lsLogs, lsCount, stopPc, store,
                 nextSession, nLogged>>

\* The client side of a settled request r: saveLogsToServer /
\* saveAllLogsToServer after the awaited fetch (ok = response.ok), and the
\* part of ExperimentControl.stopSession that awaits it.  The fallback save
\* of stopSession (fallbackSaveLogs) only logs the outcome.
Settle(r, ok) ==
  LET acked == ok /\ r.origin # "stopFallback"
      cnt == IF acked THEN AckedCount(logsRef, lastAutoSaveRef)
                      ELSE FailedCount(logsRef, lastAutoSaveRef)
  IN /\ lastAutoSaveRef' = cnt
     /\ lsCount' = IF acked THEN [lsCount EXCEPT ![r.sid] = cnt] ELSE lsCount
     /\ lastReturn' = "none"
     /\ IF r.origin = "stopAll" /\ ~ok /\ logsRef # <<>>
          THEN /\ inflight' = (inflight (-) One(r)) (+)
                     One(Req("save", r.sid, logsRef, "stopFallback", FALSE))
               /\ stopPc' = "fallback"
          ELSE /\ inflight' = inflight (-) One(r)
               /\ stopPc' = IF r.origin = "auto" THEN stopPc ELSE "bagstop"
     /\ UNCHANGED <<serverVars, startupVars, sessionId, manualIp, logsRef, autoSaveIntervalRef, restoreTimeout,
                    lsSession, lsLogs, nextSession, nLogged>>

\* POST /experiment/logs/save writes the file and answers 200
SaveOk(r) ==
  /\ r.kind = "save"
  /\ r.body # <<>>
  /\ store' = Served(r)
  /\ Settle(r, TRUE)

\* POST /experiment/logs/save answers 400 'Missing sessionId or logs'
SaveRejected(r) ==
  /\ r.kind = "save"
  /\ r.body = <<>>
  /\ store' = Served(r)
  /\ Settle(r, FALSE)

\* no /experiment/logs/append route: 404, and saveLogsToServer posts the
\* whole current buffer to /experiment/logs/save
Append404(r) ==
  /\ r.kind = "append"
  /\ inflight' = (inflight (-) One(r)) (+)
                   One(Req("save", r.sid, logsRef, r.origin, TRUE))
  /\ lastReturn' = "none"
  /\ UNCHANGED <<serverVars, startupVars, sessionId, manualIp, logsRef, lastAutoSaveRef, autoSaveIntervalRef,
                 restoreTimeout, lsSession, lsLogs, lsCount, stopPc, store,
                 nextSession, nLogged>>

\* the request never reaches the server (fetch rejects), or the server
\* answers 500 without having written
RequestFails(r) ==
  /\ store' = store
  /\ Settle(r, FALSE)

\* the server writes the file but the response never arrives
ResponseLost(r) ==
  /\ Served(r) # store
  /\ store' = Served(r)
  /\ Settle(r, FALSE)

\* ExperimentControl.stopSession up to its first await: saveAllLogsToServer
\* returns false at once on an empty buffer, the fallback then has nothing
\* to export, and POST /bag/stop is sent.
StopSession ==
  /\ sessionId # NoSession
  /\ stopPc = "idle"
  /\ manualIp = "host"
  /\ IF Len(logsRef) = 0
       THEN /\ stopPc' = "bagstop"
            /\ UNCHANGED inflight
       ELSE /\ CanSend
            /\ inflight' = inflight (+) One(Req("save", sessionId, logsRef, "stopAll", FALSE))
            /\ stopPc' = "saving"
  /\ lastReturn' = "none"
  /\ UNCHANGED <<serverVars, startupVars, sessionId, manualIp, logsRef, lastAutoSaveRef, autoSaveIntervalRef,
                 restoreTimeout, lsSession, lsLogs, lsCount, store,
                 nextSession, nLogged>>

\* POST /bag/stop answered ok: the session ends; handleSessionChange(null)
\* clears nothing, the effects drop the interval and the timeout
BagStopOk ==
  /\ stopPc = "bagstop"
  /\ sessionId' = NoSession
  /\ lsSession' = NoSession
  /\ lsStartTime' = "none"
  /\ autoSaveIntervalRef' = IntervalFor(NoSession, manualIp)
  /\ restoreTimeout' = TimeoutFor(NoSession, manualIp, logsRef, lastAutoSaveRef)
  /\ stopPc' = "idle"
  /\ lastReturn' = "none"
  /\ UNCHANGED <<serverVars, page, manualIp, logsRef, lastAutoSaveRef, lsLogs, lsCount, inflight, store,
                 nextSession, nLogged>>

\* POST /bag/stop not ok or rejected: stopSession throws into its catch
BagStopFails ==
  /\ stopPc = "bagstop"
  /\ stopPc' = "idle"
  /\ lastReturn' = "none"
  /\ UNCHANGED <<serverVars, startupVars, sessionId, manualIp, logsRef, lastAutoSaveRef, autoSaveIntervalRef,
                 restoreTimeout, lsSession, lsLogs, lsCount, inflight, store,
                 nextSession, nLogged>>

\* The operator edits the server address field and leaves it naming the
\* server: every callback and effect that depends on manualIp is rebuilt
\* (timers cleared by the cleanups, then set again).  Requests posted to a
\* half-typed address in between are requests that fail.
ManualIpChange ==
  /\ manualIp # ""
  /\ manualIp' = manualIp
  /\ autoSaveIntervalRef' = IntervalFor(sessionId, manualIp')
  /\ restoreTimeout' = TimeoutFor(sessionId, manualIp', logsRef, lastAutoSaveRef)
  /\ lastReturn' = "none"
  /\ UNCHANGED <<serverVars, startupVars, sessionId, logsRef, lastAutoSaveRef, lsSession, lsLogs, lsCount,
                 inflight, stopPc, store, nextSession, nLogged>>

\* Page reload: every ref, state, timer and pending promise is gone; then
\* the mount effect of ExperimentControl restores the persisted session.
Reload ==
  /\ manualIp' = "host"
  /\ inflight' = EmptyBag
  /\ stopPc' = "idle"
  /\ IF lsSession # NoSession
       THEN EnterSession(lsSession, manualIp')
       ELSE /\ sessionId' = NoSession
            /\ logsRef' = <<>>
            /\ lastAutoSaveRef' = 0
            /\ autoSaveIntervalRef' = NoSession
            /\ restoreTimeout' = NoSession
            /\ UNCHANGED <<lsLogs, lsCount>>
  /\ lastReturn' = "none"
  /\ UNCHANGED <<serverVars, startupVars, lsSession, store, nextSession, nLogged>>

SaveAnswered200 == \E r \in BagToSet(inflight) : SaveOk(r)
SaveAnswered400 == \E r \in BagToSet(inflight) : SaveRejected(r)
AppendAnswered404 == \E r \in BagToSet(inflight) : Append404(r)
FetchFails == \E r \in BagToSet(inflight) : RequestFails(r)
FetchLosesResponse == \E r \in BagToSet(inflight) : ResponseLost(r)

Next ==
  \/ StartSession
  \/ LogEvent
  \/ LogEventStorageFull
  \/ Tick
  \/ RestoreTimeoutFire
  \/ SaveAnswered200
  \/ SaveAnswered400
  \/ AppendAnswered404
  \/ FetchFails
  \/ FetchLosesResponse
  \/ StopSession
  \/ BagStopOk
  \/ BagStopFails
  \/ ManualIpChange
  \/ Reload

Spec == Init /\ [][Next]_vars

\* The browser fires a timer that is set, and a request that stays pending
\* is answered by the server as long as nothing makes it fail.
SpecLoggerFair ==
  /\ Spec
  /\ WF_vars(Tick)
  /\ WF_vars(RestoreTimeoutFire)
  /\ WF_vars(SaveAnswered200)
  /\ WF_vars(AppendAnswered404)


\* ------------------------------------------ Recording Controller actions
\* One(t) is reused for the bag of stop timers.
\* POST /bag/start.  spawned: the recorder process comes up; otherwise the
\* spawn fails, and the 'error' event that child_process emits on the next
\* tick runs its handler before any other request is served.
BagStart(spawned) ==
  /\ IF RecordingActive(bagProcess)
       THEN /\ bagReply' = BagReply("start", 400, NoPath, NoProcess)
            /\ UNCHANGED <<bagProcess, currentBagPath, recorders, nextPid, stopReturned>>
       ELSE /\ nextPid <= MaxRecorders
            /\ recorders' = [recorders EXCEPT
                   ![nextPid] = IF spawned THEN "running" ELSE "lost"]
            /\ bagProcess' = IF spawned THEN nextPid ELSE ClosedProcess(nextPid)
            /\ currentBagPath' = IF spawned THEN BagPath(nextPid) ELSE NoPath
            /\ nextPid' = nextPid + 1
            /\ bagReply' = BagReply("start", 200, BagPath(nextPid), NoProcess)
            /\ stopReturned' = FALSE
  /\ UNCHANGED <<stopTimers, loggerVars, gatewayVars>>

BagStartSpawns == BagStart(TRUE)

BagStartSpawnFails == ~RecordingActive(bagProcess) /\ BagStart(FALSE)

\* POST /bag/stop up to its setTimeout: SIGINT to the current process (which
\* a dead process ignores), reply pending
BagStop ==
  /\ IF ~RecordingActive(bagProcess)
       THEN /\ bagReply' = BagReply("stop", 400, NoPath, NoProcess)
            /\ UNCHANGED <<recorders, stopTimers>>
       ELSE /\ BagCardinality(stopTimers) < MaxStops
            /\ recorders' = [recorders EXCEPT
                   ![bagProcess] = IF @ = "running" THEN "signalled" ELSE @]
            /\ stopTimers' = stopTimers (+) One([stopped |-> bagProcess])
            /\ UNCHANGED bagReply
  /\ UNCHANGED <<bagProcess, currentBagPath, nextPid, stopReturned,
                 loggerVars, gatewayVars>>

\* the 2 s timer of a stop: stoppedPath = currentBagPath, both globals
\* nulled, success answered
StopTimerFire(t) ==
  /\ stopTimers' = stopTimers (-) One(t)
  /\ bagReply' = BagReply("stop", 200, currentBagPath, t.stopped)
  /\ bagProcess' = StoppedProcess(bagProcess)
  /\ currentBagPath' = NoPath
  /\ stopReturned' = TRUE
  /\ UNCHANGED <<recorders, nextPid, loggerVars, gatewayVars>>

\* the recorder process flushes and exits after SIGINT
RecorderExits(p) ==
  /\ recorders[p] = "signalled"
  /\ recorders' = [recorders EXCEPT ![p] = "exited"]
  /\ UNCHANGED <<bagProcess, currentBagPath, stopTimers, nextPid, bagReply,
                 stopReturned, loggerVars, gatewayVars>>

\* the recorder process dies on its own
RecorderCrashes(p) ==
  /\ recorders[p] = "running"
  /\ recorders' = [recorders EXCEPT ![p] = "crashed"]
  /\ UNCHANGED <<bagProcess, currentBagPath, stopTimers, nextPid, bagReply,
                 stopReturned, loggerVars, gatewayVars>>

\* bagProcess.on('error') / bagProcess.on('close') of recorder p; a recorder
\* that died on its own ends as "lost", one that was stopped as "closed"
CloseCallback(p) ==
  /\ recorders[p] \in {"exited", "crashed"}
  /\ recorders' = [recorders EXCEPT ![p] = IF @ = "crashed" THEN "lost" ELSE "closed"]
  /\ bagProcess' = ClosedProcess(bagProcess)
  /\ currentBagPath' = NoPath
  /\ UNCHANGED <<stopTimers, nextPid, bagReply, stopReturned, loggerVars, gatewayVars>>

StopSettles == \E t \in BagToSet(stopTimers) : StopTimerFire(t)
RecorderExit == \E p \in Recorders : RecorderExits(p)
RecorderCrash == \E p \in Recorders : RecorderCrashes(p)
RecorderClosed == \E p \in Recorders : CloseCallback(p)

NextRecorder ==
  \/ BagStartSpawns
  \/ BagStartSpawnFails
  \/ BagStop
  \/ StopSettles
  \/ RecorderExit
  \/ RecorderCrash
  \/ RecorderClosed

SpecRecorder == Init /\ [][NextRecorder]_vars


\* ------------------------------------------------ Action Gateway actions
\* the handler answers call c: res.status(code).json({error}) or, for a
\* 200, res.json({status, result})
Replied(c, code, error, status, payload, cause) ==
  calls' = [calls EXCEPT ![c] = [@ EXCEPT !.pc = "replied", !.code = code,
                                          !.error = error, !.status = status,
                                          !.payload = payload, !.cause = cause]]

\* rclnodejs.init() resolves and the node is created
NodeReady ==
  /\ node = FALSE
  /\ node' = TRUE
  /\ UNCHANGED <<serverUp, calls, loggerVars, recorderVars>>

\* the remote action server appears / disappears
HandlerUp ==
  /\ ~serverUp
  /\ serverUp' = TRUE
  /\ UNCHANGED <<node, calls, loggerVars, recorderVars>>

HandlerDown ==
  /\ serverUp
  /\ serverUp' = FALSE
  /\ UNCHANGED <<node, calls, loggerVars, recorderVars>>

\* POST /generic-action up to await actionClient.waitForServer(5000)
Receive(c, req) ==
  /\ calls[c].pc = "idle"
  /\ IF MissingField(req)
       THEN calls' = [calls EXCEPT ![c] =
              Call("replied", req, FALSE, FALSE, 400, "Missing actionName, actionType, or goal",
                   0, "none", "invalid", FALSE)]
     ELSE IF ~node
       THEN calls' = [calls EXCEPT ![c] =
              Call("replied", req, FALSE, FALSE, 503, "ROS 2 node not initialised yet",
                   0, "none", "node", FALSE)]
     ELSE IF ~Resolves(req.actionType)
       THEN calls' = [calls EXCEPT ![c] =
              Call("replied", req, FALSE, FALSE, 500, "err.message",
                   0, "none", "type", FALSE)]
     ELSE calls' = [calls EXCEPT ![c] =
              Call("discover", req, FALSE, FALSE, 0, "", 0, "none", "", FALSE)]
  /\ UNCHANGED <<node, serverUp, loggerVars, recorderVars>>

\* waitForServer resolves: true when the server is reachable, false after
\* 5 s without it; then the 503, or new Goal(goalData) and sendGoal
DiscoveryEnds(c) ==
  /\ calls[c].pc = "discover"
  /\ IF AfterDiscovery(serverUp) = "replied"
       THEN Replied(c, 503, "Action server not available", 0, "none", "unavailable")
       ELSE calls' = [calls EXCEPT ![c] = [@ EXCEPT !.pc = "sendGoal",
                                                    !.discovered = serverUp,
                                                    !.submitted = TRUE]]
  /\ UNCHANGED <<node, serverUp, loggerVars, recorderVars>>

\* await actionClient.sendGoal resolves with a goal handle
GoalAnswered(c) ==
  /\ calls[c].pc = "sendGoal"
  /\ calls' = [calls EXCEPT ![c].pc = "getResult"]
  /\ UNCHANGED <<node, serverUp, loggerVars, recorderVars>>

\* sendGoal rejects: the outer catch answers 500 with err.message
SendGoalThrows(c) ==
  /\ calls[c].pc = "sendGoal"
  /\ Replied(c, 500, "err.message", 0, "none", "transport")
  /\ UNCHANGED <<node, serverUp, loggerVars, recorderVars>>

\* the remote server reaches a terminal status and getResult resolves
ResultArrives(c, status, payload) ==
  /\ calls[c].pc = "getResult"
  /\ serverUp
  /\ Replied(c, 200, "", status, payload, "")
  /\ UNCHANGED <<node, serverUp, loggerVars, recorderVars>>

\* getResult rejects: the inner catch answers 504
GetResultThrows(c) ==
  /\ calls[c].pc = "getResult"
  /\ Replied(c, 504, "Timed-out waiting for action result", 0, "none", "getResult")
  /\ UNCHANGED <<node, serverUp, loggerVars, recorderVars>>

\* callGenericAction after its fetch: success false when !response.ok,
\* else derived from the reply
ClientHandles(c) ==
  /\ calls[c].pc = "replied"
  /\ calls' = [calls EXCEPT ![c] = [@ EXCEPT
         !.pc = "done",
         !.success = IF calls[c].code = 200
                       THEN DerivedSuccess(calls[c].status, calls[c].payload)
                       ELSE FALSE,
         !.message = ShownMessage(calls[c].code, calls[c].status, calls[c].payload)]]
  /\ UNCHANGED <<node, serverUp, loggerVars, recorderVars>>

SubmitAction == \E c \in Calls, req \in Requests : Receive(c, req)
Discovery == \E c \in Calls : DiscoveryEnds(c)
GoalSent == \E c \in Calls : GoalAnswered(c)
GoalFails == \E c \in Calls : SendGoalThrows(c)
ResultReturned ==
  \E c \in Calls, status \in GoalStatuses, payload \in Payloads :
    ResultArrives(c, status, payload)
ResultFails == \E c \in Calls : GetResultThrows(c)
ClientDone == \E c \in Calls : ClientHandles(c)

\* the steps the gateway and the client take by themselves
GatewayStep == SubmitAction \/ Discovery \/ GoalSent \/ ClientDone

NextGateway ==
  \/ NodeReady
  \/ HandlerUp
  \/ HandlerDown
  \/ SubmitAction
  \/ Discovery
  \/ GoalSent
  \/ GoalFails
  \/ ResultReturned
  \/ ResultFails
  \/ ClientDone

SpecGateway == Init /\ [][NextGateway]_vars

\* The event loop of the server runs every handler whose awaited promise has
\* settled, rclnodejs.init and waitForServer settle by themselves, and the
\* browser runs the continuation of a fetch that was answered.  Nothing
\* makes the remote action server answer a goal or finish it.
SpecGatewayFair ==
  /\ SpecGateway
  /\ WF_vars(NodeReady)
  /\ \A c \in Calls : WF_vars(DiscoveryEnds(c))
  /\ \A c \in Calls : WF_vars(GoalAnswered(c))
  /\ \A c \in Calls : WF_vars(ClientHandles(c))

\* ------------------------------------------------------------ properties
InFile(e, s) == store[s] # Absent /\ e \in Range(store[s])

PersistedLogs(s) == IF lsLogs[s] = Absent THEN <<>> ELSE lsLogs[s]
PersistedCount(s) == IF lsCount[s] = NoCount THEN 0 ELSE lsCount[s]

InFlightOf(s) == {r \in BagToSet(inflight) : r.sid = s}
SessionOver(s) == s < nextSession /\ sessionId # s /\ lsSession # s

\* C1: no loss.  Once a session is over, none of its synchronize requests is
\* in flight and the acknowledged count recorded for it covers every event
\* logged in it, each of those events is in the session's Log Store file.
C1_NoLoss ==
  \A s \in Sessions :
    (SessionOver(s) /\ InFlightOf(s) = {} /\ nLogged[s] > 0 /\ lsCount[s] = nLogged[s])
      => \A k \in 1..nLogged[s] : InFile(<<s, k>>, s)

\* C2: the watermark counts only acknowledged events: each of the first
\* lastAutoSaveRef events of the buffer is in the Log Store file of its session.
C2_WatermarkAcked ==
  \A i \in 1..Len(logsRef) :
    (i <= lastAutoSaveRef /\ logsRef[i][1] # NoSession)
      => InFile(logsRef[i], logsRef[i][1])

\* C3: a reload while a session is persisted as active restores that
\* sessionId with the persisted buffer and the persisted watermark, and
\* leaves the persisted buffer as it was.
C3_ReloadRestores ==
  [][(Reload /\ lsSession # NoSession)
       => /\ sessionId' = lsSession
          /\ logsRef' = PersistedLogs(lsSession)
          /\ lastAutoSaveRef' = PersistedCount(lsSession)
          /\ lsLogs'[lsSession] = lsLogs[lsSession]]_vars

\* C4: the watermark is never negative and never exceeds the buffer length.
C4_WatermarkInBounds == 0 <= lastAutoSaveRef /\ lastAutoSaveRef <= Len(logsRef)

\* C4 witness: a restored session (a reload emptied the buffer of a session
\* that had logged events) whose last localStorage write of the buffer
\* failed, with an acknowledged event.
C4_Witness ==
  /\ sessionId # NoSession
  /\ nLogged[sessionId] > Len(logsRef)
  /\ logsRef # <<>>
  /\ PersistedLogs(sessionId) # logsRef
  /\ lastAutoSaveRef = Len(logsRef)

\* C5: within one session no step makes the watermark smaller.
C5_WatermarkMonotone ==
  [][(sessionId # NoSession /\ sessionId' = sessionId)
       => lastAutoSaveRef' >= lastAutoSaveRef]_vars

\* C6: a synchronize attempt that fails (request rejected, non-OK answer,
\* response lost) leaves the watermark in memory, the persisted watermarks,
\* the buffer and so the pending events as they were.
C6_FailureKeepsState ==
  [][\A r \in BagToSet(inflight) :
       (RequestFails(r) \/ ResponseLost(r) \/ SaveRejected(r))
         => /\ lastAutoSaveRef' = lastAutoSaveRef
            /\ lsCount' = lsCount
            /\ logsRef' = logsRef
            /\ lsLogs' = lsLogs
            /\ NewLogs(logsRef', lastAutoSaveRef') = NewLogs(logsRef, lastAutoSaveRef)]_vars

\* C6 witness: the final save of stopSession has failed (its fallback save
\* is in flight) and events are still pending.
C6_Witness ==
  /\ stopPc = "fallback"
  /\ lastAutoSaveRef < Len(logsRef)
  /\ PersistedCount(sessionId) = lastAutoSaveRef

\* C7: when the save that follows a 404 on the append is acknowledged for
\* the current session, the watermark is the buffer length and the file of
\* the session is the buffer, each event once.
C7_FallbackSavesAll ==
  [][\A r \in BagToSet(inflight) :
       (SaveOk(r) /\ r.fb /\ r.sid = sessionId)
         => /\ lastAutoSaveRef' = Len(logsRef')
            /\ store'[r.sid] = logsRef']_vars

C9_NoOverlap ==
  \A s \in Sessions :
    \A r1, r2 \in InFlightOf(s) : r1 = r2 /\ CopiesIn(r1, inflight) = 1

FileAfter(s) == IF store'[s] = Absent THEN <<>> ELSE store'[s]
PersistedAfter(s) == IF lsLogs'[s] = Absent THEN <<>> ELSE lsLogs'[s]

\* C10: an unacknowledged event of a session stays in the persisted buffer
\* (and, short of a reload, in memory) until it is in the session's file.
C10_UnsavedRetained ==
  [][/\ \A s \in Sessions :
          \A i \in 1..Len(PersistedLogs(s)) :
            i > PersistedCount(s)
              => \/ lsLogs[s][i] \in Range(FileAfter(s))
                 \/ lsLogs[s][i] \in Range(PersistedAfter(s))
     /\ ~Reload =>
          \A i \in 1..Len(logsRef) :
            (i > lastAutoSaveRef /\ logsRef[i][1] # NoSession)
              => \/ logsRef[i] \in Range(FileAfter(logsRef[i][1]))
                 \/ logsRef[i] \in Range(logsRef')]_vars


\* C11: stopSession ends the session.  Whenever a running stopSession
\* finishes (by anything but a page reload that kills it), no session is
\* active and the persisted session descriptor is closed, whatever became
\* of its final save.
C11_StopEndsSession ==
  [][(stopPc # "idle" /\ stopPc' = "idle" /\ ~Reload)
       => (sessionId' = NoSession /\ lsSession' = NoSession)]_vars

\* C12: at most one recorder is Recording.  Of the recorder processes the
\* controller has launched, at most one is alive without having been
\* signalled to stop.
C12_OneRecorder == Cardinality({p \in Recorders : recorders[p] = "running"}) <= 1

\* C13: a start while the controller holds a recording is answered 400,
\* launches no process and leaves the current process and path as they were.
C13_StartRefused ==
  [][((BagStartSpawns \/ BagStartSpawnFails) /\ bagProcess # NoProcess)
       => /\ bagReply' = BagReply("start", 400, NoPath, NoProcess)
          /\ nextPid' = nextPid
          /\ recorders' = recorders
          /\ bagProcess' = bagProcess
          /\ currentBagPath' = currentBagPath]_vars

\* a start was refused while a recorder runs
C13_Witness ==
  /\ bagReply = BagReply("start", 400, NoPath, NoProcess)
  /\ bagProcess # NoProcess
  /\ recorders[bagProcess] = "running"

\* C14: from a successful answer of stop to the next successful start,
\* status reports recording = false with path and pid null.
C14_StatusAfterStop ==
  stopReturned => BagStatus = [recording |-> FALSE, path |-> NoPath, pid |-> NoProcess]

\* the second recording was stopped, and its stop has answered success
C14_Witness ==
  /\ stopReturned
  /\ bagReply.op = "stop"
  /\ bagReply.code = 200
  /\ bagReply.stopped = 2

\* C15: when a recorder that was not stopped dies, its exit callback resets
\* the controller to Idle; status then reports recording = false until a
\* start is answered success, and a start in that state is answered success.
C15_CrashResets ==
  [][/\ \A p \in Recorders :
          (CloseCallback(p) /\ recorders[p] = "crashed")
            => (bagProcess' = NoProcess /\ currentBagPath' = NoPath)
     /\ (bagProcess = NoProcess /\ bagProcess' # NoProcess)
          => (bagReply'.op = "start" /\ bagReply'.code = 200)
     /\ ((BagStartSpawns \/ BagStartSpawnFails) /\ bagProcess = NoProcess)
          => bagReply' = BagReply("start", 200, BagPath(nextPid), NoProcess)]_vars

\* the first recorder died on its own, and the start after it succeeded
C15_Witness ==
  /\ recorders[1] = "lost"
  /\ bagProcess = 2
  /\ bagReply = BagReply("start", 200, BagPath(2), NoProcess)

\* C16: a stop that answers success returns the path of the recording it
\* stopped.
C16_StopReturnsPath ==
  (bagReply.op = "stop" /\ bagReply.code = 200)
    => bagReply.path = BagPath(bagReply.stopped)

\* C17: status-mapping rule.  For every reply {status, result} of the
\* gateway, the success the client derives is true exactly when the status
\* is Succeeded or the result carries success = true.
C17_StatusMapping ==
  \A c \in Calls :
    (calls[c].pc = "done" /\ calls[c].code = 200)
      => (calls[c].success <=> (calls[c].status = Succeeded \/ calls[c].payload = "true"))

\* an aborted goal whose result says success = true counts as a success
C17_Witness ==
  \E c \in Calls :
    /\ calls[c].pc = "done"
    /\ calls[c].code = 200
    /\ calls[c].status = 6
    /\ calls[c].payload = "true"
    /\ calls[c].success

\* C18: when discovery ends without a reachable server the call is answered
\* 503 'Action server not available' and no goal is sent; no call has sent
\* a goal without having found the server first.
C18_GoalAfterDiscovery ==
  [][\A c \in Calls :
       /\ (DiscoveryEnds(c) /\ ~serverUp)
            => /\ calls'[c].pc = "replied"
               /\ calls'[c].code = 503
               /\ calls'[c].error = "Action server not available"
               /\ ~calls'[c].submitted
       /\ calls'[c].submitted => calls'[c].discovered]_vars

\* one call ended unavailable without a goal while another had sent its goal
C18_Witness ==
  \E c, d \in Calls :
    /\ calls[c].pc = "done"
    /\ calls[c].cause = "unavailable"
    /\ ~calls[c].submitted
    /\ calls[d].submitted

\* C19: every call terminates.  A call that was received is eventually
\* answered and handled by the client.
C19_CallTerminates ==
  \A c \in Calls : (calls[c].pc # "idle") ~> (calls[c].pc = "done")

\* C20: a call whose actionType does not resolve discovers nothing, sends no
\* goal, and is answered by a reply (status code and error) that no call
\* failing for another reason is answered by.
C20_UnresolvableDistinct ==
  \A c \in Calls :
    calls[c].cause = "type"
      => /\ ~calls[c].discovered
         /\ ~calls[c].submitted
         /\ \A d \in Calls :
              calls[d].cause \notin {"type", ""}
                => <<calls[c].code, calls[c].error>> # <<calls[d].code, calls[d].error>>

\* what can keep a synchronize from succeeding, or ends the session: a
\* failing request, a refused save, a reload, a stop, a start, an edit of
\* the server address
Disturbance ==
  \/ FetchFails
  \/ FetchLosesResponse
  \/ SaveAnswered400
  \/ Reload
  \/ StopSession
  \/ StartSession
  \/ ManualIpChange

\* the active session is fully synchronized
Synchronized ==
  sessionId # NoSession
    => /\ lastAutoSaveRef = Len(logsRef)
       /\ \A i \in 1..Len(logsRef) : InFile(logsRef[i], sessionId)

\* C21: recovery by the periodic tick.  If from some point on the Log Store
\* answers every request and the session is left running, then eventually,
\* and from then on, the watermark equals the buffer length and the Log
\* Store file of the session holds every buffered event.
C21_TickRecovers == (<>[][~Disturbance]_vars) => <>[]Synchronized

\* ------------------------------------------------- startup from any storage
\* A value of a localStorage key that JSON.parse rejects, and a saved count
\* that parseInt turns into NaN.
Corrupt == << <<NoSession, -1>> >>
NotANumber == -2

StoredLogs(s) == {Absent, Corrupt, << <<s, 1>> >>}
StoredCounts == {NoCount, NotANumber, 0, 1}
StoredStartTimes == {"none", "iso", "garbage"}

\* new Date(savedStartTime): never throws, gives an Invalid Date for a
\* string that is no date
DateOf(saved) == IF saved = "iso" THEN "valid" ELSE "invalid"

\* sessionStartTime.toISOString() of the persistence effect throws a
\* RangeError on an Invalid Date
ToISOStringThrows(date) == date = "invalid"

\* The browser opens the page on whatever the keys hold.
InitStartup ==
  /\ sessionId = NoSession
  /\ manualIp = "host"
  /\ logsRef = <<>>
  /\ lastAutoSaveRef = 0
  /\ autoSaveIntervalRef = NoSession
  /\ restoreTimeout = NoSession
  /\ lsSession \in 0..MaxSessions
  /\ lsStartTime \in StoredStartTimes
  /\ lsLogs \in {f \in [Sessions -> UNION {StoredLogs(s) : s \in Sessions}] :
                   \A s \in Sessions : f[s] \in StoredLogs(s)}
  /\ lsCount \in [Sessions -> StoredCounts]
  /\ inflight = EmptyBag
  /\ stopPc = "idle"
  /\ store = [s \in Sessions |-> Absent]
  /\ nextSession = IF lsSession = NoSession THEN 1 ELSE lsSession + 1
  /\ nLogged = [s \in 0..MaxSessions |->
                  IF s # NoSession /\ lsLogs[s] = << <<s, 1>> >> THEN 1 ELSE 0]
  /\ lastReturn = "none"
  /\ page = "loading"
  /\ RecorderInit
  /\ GatewayInit

\* The effects of the first commit and of the render they cause.
\* ExperimentControl's mount effect restores the session when both keys are
\* set (onSessionChange -> handleSessionChange -> clearLogs, then the hook's
\* restore effect); the persistence effect, run in the same commit with no
\* session yet, removes both keys; run again after the restore it writes
\* the session key and then calls toISOString on the restored start time.
Mount ==
  /\ page = "loading"
  /\ IF lsSession # NoSession /\ lsStartTime # "none"
       THEN /\ EnterSession(lsSession, manualIp)
            /\ lsSession' = lsSession
            /\ IF ToISOStringThrows(DateOf(lsStartTime))
                 THEN /\ lsStartTime' = "none"
                      /\ page' = "failed"
                 ELSE /\ lsStartTime' = "iso"
                      /\ page' = "running"
       ELSE /\ sessionId' = NoSession
            /\ logsRef' = <<>>
            /\ lastAutoSaveRef' = 0
            /\ autoSaveIntervalRef' = NoSession
            /\ restoreTimeout' = NoSession
            /\ lsSession' = NoSession
            /\ lsStartTime' = "none"
            /\ page' = "running"
            /\ UNCHANGED <<lsLogs, lsCount>>
  /\ lastReturn' = "none"
  /\ UNCHANGED <<serverVars, manualIp, inflight, stopPc, store, nextSession, nLogged>>

\* The operator reloads the page: refs, state, timers and pending promises
\* are gone, the keys stay.
PageReload ==
  /\ page # "loading"
  /\ page' = "loading"
  /\ sessionId' = NoSession
  /\ logsRef' = <<>>
  /\ lastAutoSaveRef' = 0
  /\ autoSaveIntervalRef' = NoSession
  /\ restoreTimeout' = NoSession
  /\ inflight' = EmptyBag
  /\ stopPc' = "idle"
  /\ lastReturn' = "none"
  /\ UNCHANGED <<serverVars, manualIp, lsSession, lsStartTime, lsLogs, lsCount, store,
                 nextSession, nLogged>>

\* what a running page goes on to do
MountedStartSession == page = "running" /\ StartSession
MountedLogEvent == page = "running" /\ LogEvent
MountedTick == page = "running" /\ Tick
MountedAppendAnswered404 == page = "running" /\ AppendAnswered404
MountedSaveAnswered200 == page = "running" /\ SaveAnswered200

NextStartup ==
  \/ Mount
  \/ PageReload
  \/ MountedStartSession
  \/ MountedLogEvent
  \/ MountedTick
  \/ MountedAppendAnswered404
  \/ MountedSaveAnswered200

SpecStartup == InitStartup /\ [][NextStartup]_vars

\* some persisted key of the session to restore cannot be parsed
StoredUnparsable ==
  /\ lsSession # NoSession
  /\ \/ lsStartTime = "garbage"
     \/ lsLogs[lsSession] = Corrupt
     \/ lsCount[lsSession] = NotANumber

\* C22: when a persisted key cannot be parsed at startup, the page comes up
\* running with an empty buffer and a zero watermark, and restores no
\* session from an unparsable descriptor.
C22_CorruptStartsClean ==
  [][(Mount /\ StoredUnparsable)
       => /\ page' = "running"
          /\ logsRef' = <<>>
          /\ lastAutoSaveRef' = 0
          /\ (lsStartTime = "garbage" => sessionId' = NoSession)]_vars

\* C23: when logEvent returns during a session, the buffer stored under the
\* session's key equals the in-memory buffer, whose last element is the new
\* event, and logEvent has neither sent nor awaited a request.
C23_LogEventPersists ==
  [][((\E full \in BOOLEAN : LogEventTo(full)) /\ sessionId # NoSession)
       => /\ logsRef' = Append(logsRef, <<sessionId, nLogged[sessionId] + 1>>)
          /\ lsLogs'[sessionId] = logsRef'
          /\ inflight' = inflight]_vars

\* useExperimentSession.saveSessionToFile: the record {type:
\* "session_summary", ...session} that heads the file it builds for download
SessionSummary(s) == <<s, 0>>

\* saveSessionToFile: [summary, ...events].join("\n")
SessionFile(s, events) == <<SessionSummary(s)>> \o events

\* C24: every file of the Log Store starts with the session-summary record
\* of its session and holds only event records after it.
C24_SummaryFirst ==
  \A s \in Sessions :
    store[s] # Absent
      => \E events \in {SubSeq(store[s], 2, Len(store[s]))} :
           /\ store[s] = SessionFile(s, events)
           /\ \A i \in 1..Len(events) : events[i] # SessionSummary(s)

\* C25: start and stop exclude each other.  While a stop has signalled its
\* recorder and its timer has not yet answered, the slot holds that
\* recorder or nothing: no start has put a later recording into the slot
\* that the pending stop is about to reset.
C25_StartStopExclusive ==
  \A t \in BagToSet(stopTimers) : bagProcess \in {NoProcess, t.stopped}

\* C26: stopping cancels the periodic synchronization.  The one interval
\* the hook holds belongs to the current session, so with no session there
\* is no interval and no tick starts a synchronize; requests still in
\* flight for the stopped session stay and are settled.
C26_StopCancelsTick ==
  /\ autoSaveIntervalRef \in {NoSession, sessionId}
  /\ (ENABLED Tick) => sessionId # NoSession

\* session 1 was stopped while a periodic save of it is in flight, and the
\* buffer holds something a tick would send
C26_Witness ==
  /\ sessionId = NoSession
  /\ lsSession = NoSession
  /\ nextSession = 2
  /\ autoSaveIntervalRef = NoSession
  /\ \E r \in InFlightOf(1) : r.origin = "auto"
  /\ Len(logsRef) > lastAutoSaveRef

\* C27: acknowledgements stay within their session.  When the answer to a
\* request of an earlier session arrives while another session is current,
\* the watermark and the buffer of the current session stay as they are.
C27_AckIsolated ==
  [][\A r \in BagToSet(inflight) :
       ((SaveOk(r) \/ Append404(r)) /\ sessionId # NoSession /\ r.sid # sessionId)
         => UNCHANGED <<lastAutoSaveRef, logsRef>>]_vars

\* C28: status is truthful about a live recording.  While a recorder that
\* start launched is alive and has not been signalled to stop, status
\* reports recording = true with that recorder's path and pid.
C28_StatusTruthful ==
  \A p \in Recorders :
    recorders[p] = "running"
      => BagStatus = [recording |-> TRUE, path |-> BagPath(p), pid |-> p]

\* The page from startSession to stopSession with no reload and no edit of
\* the server address; every request that stays pending is answered.
NextUnreloaded ==
  \/ StartSession
  \/ LogEvent
  \/ Tick
  \/ SaveAnswered200
  \/ AppendAnswered404
  \/ FetchFails
  \/ StopSession
  \/ BagStopOk
  \/ BagStopFails

SpecUnreloadedFair ==
  /\ Init
  /\ [][NextUnreloaded]_vars
  /\ WF_vars(Tick)
  /\ WF_vars(SaveAnswered200 \/ FetchFails)
  /\ WF_vars(AppendAnswered404 \/ FetchFails)
  /\ WF_vars(BagStopOk \/ BagStopFails)

\* C29: stopSession on an active session leads to no active session and no
\* persisted session keys, whatever /bag/stop answers.
C29_StopLeadsToIdle ==
  (sessionId # NoSession /\ stopPc # "idle")
    ~> (sessionId = NoSession /\ lsSession = NoSession /\ lsStartTime = "none")

\* C30: for every reply of the gateway, the message callGenericAction shows
\* says "executed successfully" exactly when the success it reports and
\* logs is true.
C30_MessageMatchesSuccess ==
  \A c \in Calls :
    calls[c].pc = "done"
      => (calls[c].message = "executed successfully" <=> calls[c].success)
====
